---- MODULE Spec2Model ----
(***************************************************************************)
(* IoT device registry, reading store and liveness sweep of the farm IoT   *)
(* API (src/iot.py, src/iot_crud.py, src/iot_api.py).                       *)
(*                                                                          *)
(* The persistent store is the pair of tables iot_devices / sensor_readings *)
(* (sets of rows).  Every request handler of iot_api.py is one action: it   *)
(* runs its checks, its CRUD calls and its commit as one transaction.       *)
(*   Spec      the requests that write, and the per-device read             *)
(*   SpecApi   every request modelled, the list and reading reads included  *)
(*   SpecRace  one ingestion and one sweep, split into their SQL            *)
(*             statements, in every interleaving                            *)
(*   SpecIngests   two ingestions, split likewise, in every interleaving    *)
(*   SpecReadings  the reading queries (list, statistics) over stores that  *)
(*             hold readings of several ages and metric values              *)
(*                                                                          *)
(* Time is the integer `clock`, in minutes; datetime.now(UTC) and           *)
(* datetime.utcnow() both read it (the server is taken to run in UTC).      *)
(***************************************************************************)
EXTENDS Integers, FiniteSets, Sequences, TLC

VARIABLES
    devices,        \* table iot_devices: a set of IoTDevice rows
    readings,       \* table sensor_readings: a set of SensorReading rows
    nextDeviceId,   \* next value of the iot_devices.id sequence
    nextReadingId,  \* next value of the sensor_readings.id sequence
    clock,          \* wall clock, minutes
    last,           \* the response of the last request handled
    nreq,           \* number of requests handled so far
    pcIngest,       \* SpecRace: position of the ingestion request
    pcSweep,        \* SpecRace: position of the sweep request
    race            \* SpecRace: bookkeeping of the two racing requests

vars == <<devices, readings, nextDeviceId, nextReadingId, clock, last, nreq,
          pcIngest, pcSweep, race>>

storeVars == <<devices, readings, nextDeviceId, nextReadingId>>

raceVars == <<pcIngest, pcSweep, race>>

-----------------------------------------------------------------------------
(* Bounds of the model *)

\* the clock advances in steps of TickMinutes, MaxTicks times at most
MaxTicks == 1

TickMinutes == 30

\* requests handled in one behaviour
MaxRequests == 4

-----------------------------------------------------------------------------
(* Inputs *)

Users == {"u1", "u2"}

\* app.models.user.User.role
role(u) ==
    IF u = "u2" THEN "admin" ELSE "farmer"

\* the farms table: farm 1 belongs to u1, farm 2 to u2
Farms == {[id |-> 1, owner_id |-> "u1"], [id |-> 2, owner_id |-> "u2"]}

FarmIds == {1, 2}

\* hardware identifiers a registration may carry
HwIds == {"A", "B"}

\* mqtt_topic of a registration body; "" stands for an omitted (None) or
\* empty topic, both falsy in `device_in.mqtt_topic or ...`
TopicInputs == {"", "x"}

\* IoTDeviceUpdate bodies: the two optional fields and `set`, the names of
\* the fields the request supplied (what model_dump(exclude_unset=True)
\* keeps).  A field that is not supplied carries a fixed filler value.
UpdateBodies ==
    {[set |-> {}, is_online |-> FALSE, mqtt_topic |-> ""]}
    \cup {[set |-> {"is_online"}, is_online |-> b, mqtt_topic |-> ""]
            : b \in BOOLEAN}
    \cup {[set |-> {"mqtt_topic"}, is_online |-> FALSE, mqtt_topic |-> t]
            : t \in {"y"}}
    \cup {[set |-> {"is_online", "mqtt_topic"}, is_online |-> b, mqtt_topic |-> "x"]
            : b \in BOOLEAN}

\* timeout_minutes of the sweep (Query(30, ge=5, le=1440))
Timeouts == {5, 30}

\* the device ids (primary keys) a request may name
DeviceKeys == {1, 2, 3}

\* the metric values a reading may carry: NULL, zero and two temperatures
Temperatures == {{}, {0}, {20}, {30}}

Humidities == {{}, {60}}

\* the metrics of a SensorReadingCreate body
ReadingBodies ==
    [temperature : Temperatures, humidity : Humidities]

\* the bodies the ingestion requests of Spec, SpecApi and SpecRace carry
IngestBodies ==
    {[temperature |-> {20}, humidity |-> {}]}

-----------------------------------------------------------------------------
(* farm_crud: the ownership-check collaborator *)

\* farm_crud.get_farm_by_id(db, farm_id, owner_id): the farm, if the caller
\* owns it, as a set of at most one row
get_farm_by_id(farm_id, owner_id) ==
    {f \in Farms : f.id = farm_id /\ f.owner_id = owner_id}

-----------------------------------------------------------------------------
(* iot_crud: devices.  Optional results are sets of at most one row. *)

iot_crud_get_device_by_id(devs, device_id) ==
    {d \in devs : d.id = device_id}

iot_crud_get_device_by_device_id(devs, device_id_str) ==
    {d \in devs : d.device_id = device_id_str}

\* f"farm/{farm_id}/sensors"
DefaultTopic(farm_id) ==
    "farm/" \o ToString(farm_id) \o "/sensors"

\* the row create_device builds (the id comes from the sequence at flush)
NewDevice(id, farm_id, device_id, topic_in, now) ==
    [id         |-> id,
     farm_id    |-> farm_id,
     device_id  |-> device_id,
     mqtt_topic |-> IF topic_in = "" THEN DefaultTopic(farm_id) ELSE topic_in,
     is_online  |-> TRUE,
     last_seen  |-> now,
     created_at |-> now]

\* the unique constraints of iot_devices (device_id, mqtt_topic) and its
\* primary key: what a flush of the table `devs` must satisfy
UniqueOk(devs) ==
    \A d1, d2 \in devs :
        (d1.id = d2.id \/ d1.device_id = d2.device_id
            \/ d1.mqtt_topic = d2.mqtt_topic) => d1 = d2

\* create_device: [ok, devs]; ok = FALSE is the IntegrityError of the flush
iot_crud_create_device(devs, id, farm_id, device_id, topic_in, now) ==
    LET db_device == NewDevice(id, farm_id, device_id, topic_in, now)
        added == devs \cup {db_device}
    IN  IF Cardinality(added) = Cardinality(devs) + 1 /\ UniqueOk(added)
        THEN [ok |-> TRUE, devs |-> added, ret |-> {db_device}]
        ELSE [ok |-> FALSE, devs |-> devs, ret |-> {}]

\* mutant: a full update, which writes the fields the request left out too
ApplyUpdate_ResetsAbsent(d, body) ==
    [f \in DOMAIN d |->
        IF f \in {"is_online", "mqtt_topic"} THEN body[f] ELSE d[f]]

\* setattr(db_device, field, value) for every supplied field
ApplyUpdate(d, body) ==
    [f \in DOMAIN d |-> IF f \in body.set THEN body[f] ELSE d[f]]

\* update_device: [ok, devs, ret]; ret = {} is None
iot_crud_update_device(devs, device_id, body) ==
    LET found == iot_crud_get_device_by_id(devs, device_id)
    IN  IF found = {}
        THEN [ok |-> TRUE, devs |-> devs, ret |-> {}]
        ELSE LET db_device == CHOOSE d \in found : TRUE
                 upd == ApplyUpdate(db_device, body)
                 after == (devs \ {db_device}) \cup {upd}
             IN  IF UniqueOk(after) /\ Cardinality(after) = Cardinality(devs)
                 THEN [ok |-> TRUE, devs |-> after, ret |-> {upd}]
                 ELSE [ok |-> FALSE, devs |-> devs, ret |-> {}]

\* mutant: the status update forgets last_seen
iot_crud_update_device_status_KeepsLastSeen(devs, device_id, is_online, now) ==
    {IF d.id = device_id THEN [d EXCEPT !.is_online = is_online] ELSE d : d \in devs}

\* update_device_status: UPDATE ... WHERE id = device_id
\*                       VALUES (is_online, last_seen = utcnow())
iot_crud_update_device_status(devs, device_id, is_online, now) ==
    {IF d.id = device_id
        THEN [d EXCEPT !.is_online = is_online, !.last_seen = now]
        ELSE d : d \in devs}

\* mutant: the relationship does not cascade
iot_crud_delete_device_NoCascade(devs, rds, device_id) ==
    LET found == iot_crud_get_device_by_id(devs, device_id)
    IN  [ret |-> found # {}, devs |-> devs \ found, rds |-> rds]

\* delete_device: the device row goes, and with it (relationship cascade
\* "all, delete-orphan") every reading of the device
iot_crud_delete_device(devs, rds, device_id) ==
    LET found == iot_crud_get_device_by_id(devs, device_id)
    IN  IF found = {}
        THEN [ret |-> FALSE, devs |-> devs, rds |-> rds]
        ELSE [ret  |-> TRUE,
              devs |-> devs \ found,
              rds  |-> {r \in rds : r.device_id # device_id}]

\* mutant: the cutoff itself counts as lapsed
StaleDevices_AtCutoff(devs, timeout_minutes, now) ==
    {d \in devs : d.is_online = TRUE /\ d.last_seen <= now - timeout_minutes}

\* mutant: the UPDATE forgets to look at is_online
StaleDevices_AnyStatus(devs, timeout_minutes, now) ==
    {d \in devs : d.last_seen < now - timeout_minutes}

\* the rows mark_offline_devices matches
StaleDevices(devs, timeout_minutes, now) ==
    {d \in devs : d.is_online = TRUE /\ d.last_seen < now - timeout_minutes}

\* mutant: the sweep goes through a status update that touches last_seen
iot_crud_mark_offline_devices_TouchesLastSeen(devs, timeout_minutes, now) ==
    LET hit == {d \in devs : d.is_online = TRUE /\ d.last_seen < now - timeout_minutes}
    IN  [devs |-> (devs \ hit)
                    \cup {[d EXCEPT !.is_online = FALSE, !.last_seen = now] : d \in hit},
         ret  |-> Cardinality(hit)]

\* mark_offline_devices: [devs, ret]; ret is result.rowcount
iot_crud_mark_offline_devices(devs, timeout_minutes, now) ==
    LET hit == StaleDevices(devs, timeout_minutes, now)
    IN  [devs |-> (devs \ hit) \cup {[d EXCEPT !.is_online = FALSE] : d \in hit},
         ret  |-> Cardinality(hit)]

-----------------------------------------------------------------------------
(* iot_crud: readings *)

\* the row create_sensor_reading builds from the request body.  A metric is
\* a set of at most one number, {} being NULL; humidity stands for the six
\* metrics that get_reading_stats only averages (feed_rate, water_intake,
\* humidity, avg_weight, ammonia_level, lux_level)
NewReading(id, device_id, metrics, now) ==
    [id          |-> id,
     device_id   |-> device_id,
     timestamp   |-> now,
     temperature |-> metrics.temperature,
     humidity    |-> metrics.humidity]

\* create_sensor_reading: insert the reading, then update_device_status
iot_crud_create_sensor_reading(devs, rds, id, device_id, metrics, now) ==
    LET db_reading == NewReading(id, device_id, metrics, now)
    IN  [rds  |-> rds \cup {db_reading},
         devs |-> iot_crud_update_device_status(devs, device_id, TRUE, now),
         ret  |-> {db_reading}]

\* get_latest_reading: ORDER BY timestamp DESC LIMIT 1.  The rows the query
\* may return: any reading of the device with the greatest timestamp
iot_crud_get_latest_reading(rds, device_id) ==
    {r \in rds : /\ r.device_id = device_id
                 /\ \A r2 \in rds :
                        r2.device_id = device_id => r2.timestamp <= r.timestamp}

\* the sequences that list the rows of S once each
Listings(S) ==
    {s \in [1..Cardinality(S) -> S] : \A x \in S : \E i \in DOMAIN s : s[i] = x}

\* order_by(IoTDevice.created_at.desc()): rows created at the same time come
\* in any order, the query names no second key
DevicesNewestFirst(S) ==
    {s \in Listings(S) :
        \A i, j \in DOMAIN s : i < j => s[i].created_at >= s[j].created_at}

\* order_by(desc(SensorReading.timestamp))
ReadingsNewestFirst(S) ==
    {s \in Listings(S) :
        \A i, j \in DOMAIN s : i < j => s[i].timestamp >= s[j].timestamp}

\* .offset(skip).limit(limit) of an ordered result
Page(s, skip, limit) ==
    LET hi == IF skip + limit < Len(s) THEN skip + limit ELSE Len(s)
    IN  SubSeq(s, skip + 1, hi)

Range(s) ==
    {s[i] : i \in DOMAIN s}

\* get_all_devices: the pages the query may return, and the total
iot_crud_get_all_devices(devs, online_only, skip, limit) ==
    LET sel == IF online_only THEN {d \in devs : d.is_online = TRUE} ELSE devs
    IN  [pages |-> {Page(s, skip, limit) : s \in DevicesNewestFirst(sel)},
         total |-> Cardinality(sel)]

\* get_devices_by_farm
iot_crud_get_devices_by_farm(devs, farm_id, skip, limit) ==
    LET sel == {d \in devs : d.farm_id = farm_id}
    IN  [pages |-> {Page(s, skip, limit) : s \in DevicesNewestFirst(sel)},
         total |-> Cardinality(sel)]

\* mutant: the query forgets the window
InWindow_NoCutoff(rows, hours_back, now) ==
    rows

\* `if hours_back is not None: query.where(timestamp >= cutoff_time)`:
\* hours_back is Optional[int], a set of at most one number, {} being None
InWindow(rows, hours_back, now) ==
    {r \in rows : \A h \in hours_back : r.timestamp >= now - h * 60}

\* get_readings_by_device: the lists the query may return
iot_crud_get_readings_by_device(rds, device_id, hours_back, limit, now) ==
    LET sel == InWindow({r \in rds : r.device_id = device_id}, hours_back, now)
    IN  {Page(s, 0, limit) : s \in ReadingsNewestFirst(sel)}

\* get_readings_by_farm
iot_crud_get_readings_by_farm(devs, rds, farm_id, hours_back, limit, now) ==
    LET device_ids == {d.id : d \in {x \in devs : x.farm_id = farm_id}}
        sel == InWindow({r \in rds : r.device_id \in device_ids}, hours_back, now)
    IN  IF device_ids = {} THEN {<<>>}
        ELSE {Page(s, 0, limit) : s \in ReadingsNewestFirst(sel)}

\* a number as the SQL aggregates and float() carry it: a fraction in lowest
\* terms (the metric values of the model are not negative)
RECURSIVE GCD(_, _)
GCD(a, b) ==
    IF b = 0 THEN a ELSE GCD(b, a % b)

Fraction(n, d) ==
    [num |-> n \div GCD(n, d), den |-> d \div GCD(n, d)]

\* the rows whose column f is not NULL: the rows an aggregate of f sees
NonNull(rows, f) ==
    {r \in rows : r[f] # {}}

\* the value of column f of a row where it is not NULL
ValueOf(r, f) ==
    CHOOSE v \in r[f] : TRUE

RECURSIVE SumOf(_, _)
SumOf(rows, f) ==
    IF rows = {} THEN 0
    ELSE LET r == CHOOSE x \in rows : TRUE
         IN  ValueOf(r, f) + SumOf(rows \ {r}, f)

\* func.avg(column): NULL ({}) over no value
SqlAvg(rows, f) ==
    LET seen == NonNull(rows, f)
    IN  IF seen = {} THEN {}
        ELSE {Fraction(SumOf(seen, f), Cardinality(seen))}

\* func.min(column)
SqlMin(rows, f) ==
    {Fraction(ValueOf(r, f), 1) :
        r \in {x \in NonNull(rows, f) :
                  \A y \in NonNull(rows, f) : ValueOf(x, f) <= ValueOf(y, f)}}

\* func.max(column)
SqlMax(rows, f) ==
    {Fraction(ValueOf(r, f), 1) :
        r \in {x \in NonNull(rows, f) :
                  \A y \in NonNull(rows, f) : ValueOf(x, f) >= ValueOf(y, f)}}

\* `float(x) if x else None`: None ({}) when x is None and when x is zero,
\* which Python takes for false
FloatIfTruthy(x) ==
    {v \in x : v.num # 0}

\* get_reading_stats: one aggregate query over the readings of the device
\* with timestamp >= cutoff_time, and the dictionary made of its row
iot_crud_get_reading_stats(rds, device_id, hours_back, now) ==
    LET cutoff_time == now - hours_back * 60
        rows == {r \in rds : r.device_id = device_id /\ r.timestamp >= cutoff_time}
    IN  [readings_count  |-> Cardinality(rows),
         avg_temperature |-> FloatIfTruthy(SqlAvg(rows, "temperature")),
         min_temperature |-> FloatIfTruthy(SqlMin(rows, "temperature")),
         max_temperature |-> FloatIfTruthy(SqlMax(rows, "temperature")),
         avg_humidity    |-> FloatIfTruthy(SqlAvg(rows, "humidity")),
         hours_back      |-> hours_back]

\* the latest_reading annotations of a list of devices: for each device one
\* of the rows get_latest_reading may return, none when it has no reading
LatestOf(rds, devs) ==
    {R \in SUBSET rds :
        /\ \A r \in R : \E d \in devs : r.device_id = d.id
        /\ \A d \in devs :
              LET mine == {r \in R : r.device_id = d.id}
                  cand == iot_crud_get_latest_reading(rds, d.id)
              IN  IF cand = {} THEN mine = {}
                  ELSE \E r \in cand : mine = {r}}

-----------------------------------------------------------------------------
(* iot_api: the request handlers *)

\* the response of a handler: its name, the caller, the HTTP status, the
\* number it returns, the devices and the readings in its body, for a
\* sweep that ran its timeout_minutes and the cutoff_time it computed, and
\* for the statistics of a device the summary
Resp(op, caller, status, cnt, devs, rds) ==
    [op |-> op, caller |-> caller, status |-> status, cnt |-> cnt,
     devs |-> devs, rds |-> rds, sweep |-> <<>>, stats |-> <<>>]

NoRequest ==
    [op |-> "none", caller |-> "", status |-> 0, cnt |-> 0,
     devs |-> {}, rds |-> {}, sweep |-> <<>>, stats |-> <<>>]

\* one more request is handled
Counted ==
    /\ nreq < MaxRequests
    /\ nreq' = nreq + 1

\* mutant: the duplicate check comes before the ownership check
register_device_DuplicateFirst(u, farm_id, device_id, topic_in) ==
    LET farm == get_farm_by_id(farm_id, u)
        existing_device == iot_crud_get_device_by_device_id(devices, device_id)
        res == iot_crud_create_device(devices, nextDeviceId, farm_id, device_id,
                                      topic_in, clock)
    IN  /\ IF existing_device # {}
           THEN /\ last' = Resp("register_device", u, 400, 0, {}, {})
                /\ UNCHANGED storeVars
           ELSE IF farm = {}
           THEN /\ last' = Resp("register_device", u, 404, 0, {}, {})
                /\ UNCHANGED storeVars
           ELSE IF res.ok
           THEN /\ devices' = res.devs
                /\ nextDeviceId' = nextDeviceId + 1
                /\ last' = Resp("register_device", u, 201, 0, res.ret, {})
                /\ UNCHANGED <<readings, nextReadingId>>
           ELSE /\ last' = Resp("register_device", u, 500, 0, {}, {})
                /\ UNCHANGED storeVars
        /\ Counted
        /\ UNCHANGED <<clock, raceVars>>

\* POST /devices
register_device(u, farm_id, device_id, topic_in) ==
    LET farm == get_farm_by_id(farm_id, u)
        existing_device == iot_crud_get_device_by_device_id(devices, device_id)
        res == iot_crud_create_device(devices, nextDeviceId, farm_id, device_id,
                                      topic_in, clock)
    IN  /\ IF farm = {}
           THEN /\ last' = Resp("register_device", u, 404, 0, {}, {})
                /\ UNCHANGED storeVars
           ELSE IF existing_device # {}
           THEN /\ last' = Resp("register_device", u, 400, 0, {}, {})
                /\ UNCHANGED storeVars
           ELSE IF res.ok
           THEN /\ devices' = res.devs
                /\ nextDeviceId' = nextDeviceId + 1
                /\ last' = Resp("register_device", u, 201, 0, res.ret, {})
                /\ UNCHANGED <<readings, nextReadingId>>
           \* IntegrityError at the flush: unhandled, the transaction is
           \* rolled back and the caller gets 500
           ELSE /\ last' = Resp("register_device", u, 500, 0, {}, {})
                /\ UNCHANGED storeVars
        /\ Counted
        /\ UNCHANGED <<clock, raceVars>>

\* GET /devices
list_devices(u, skip, limit, online_only) ==
    LET got == iot_crud_get_all_devices(devices, online_only, skip, limit)
    IN  /\ \E page \in got.pages :
             \E R \in LatestOf(readings, Range(page)) :
                last' = Resp("list_devices", u, 200, got.total, Range(page), R)
        /\ Counted
        /\ UNCHANGED <<storeVars, clock, raceVars>>

\* GET /devices/{device_id}
get_device(u, device_id) ==
    LET device == iot_crud_get_device_by_id(devices, device_id)
    IN  /\ IF device = {}
           THEN last' = Resp("get_device", u, 404, 0, {}, {})
           ELSE LET d == CHOOSE x \in device : TRUE
                IN  IF get_farm_by_id(d.farm_id, u) = {}
                    THEN last' = Resp("get_device", u, 403, 0, {}, {})
                    ELSE \E R \in LatestOf(readings, device) :
                            last' = Resp("get_device", u, 200, 0, device, R)
        /\ Counted
        /\ UNCHANGED <<storeVars, clock, raceVars>>

\* PUT /devices/{device_id}
update_device(u, device_id, body) ==
    LET device == iot_crud_get_device_by_id(devices, device_id)
        res == iot_crud_update_device(devices, device_id, body)
    IN  /\ IF device = {}
           THEN /\ last' = Resp("update_device", u, 404, 0, {}, {})
                /\ UNCHANGED devices
           ELSE LET d == CHOOSE x \in device : TRUE
                IN  IF get_farm_by_id(d.farm_id, u) = {}
                    THEN /\ last' = Resp("update_device", u, 403, 0, {}, {})
                         /\ UNCHANGED devices
                    ELSE IF res.ok
                    THEN /\ devices' = res.devs
                         /\ last' = Resp("update_device", u, 200, 0, res.ret, {})
                    \* IntegrityError at the flush (mqtt_topic is unique)
                    ELSE /\ last' = Resp("update_device", u, 500, 0, {}, {})
                         /\ UNCHANGED devices
        /\ Counted
        /\ UNCHANGED <<readings, nextDeviceId, nextReadingId, clock, raceVars>>

\* mutant: the handler forgets the ownership check
delete_device_NoOwnerCheck(u, device_id) ==
    LET device == iot_crud_get_device_by_id(devices, device_id)
        res == iot_crud_delete_device(devices, readings, device_id)
    IN  /\ IF device = {}
           THEN /\ last' = Resp("delete_device", u, 404, 0, {}, {})
                /\ UNCHANGED <<devices, readings>>
           ELSE /\ devices' = res.devs
                /\ readings' = res.rds
                /\ last' = Resp("delete_device", u, 204, 0, {}, {})
        /\ Counted
        /\ UNCHANGED <<nextDeviceId, nextReadingId, clock, raceVars>>

\* DELETE /devices/{device_id}
delete_device(u, device_id) ==
    LET device == iot_crud_get_device_by_id(devices, device_id)
        res == iot_crud_delete_device(devices, readings, device_id)
    IN  /\ IF device = {}
           THEN /\ last' = Resp("delete_device", u, 404, 0, {}, {})
                /\ UNCHANGED <<devices, readings>>
           ELSE LET d == CHOOSE x \in device : TRUE
                IN  IF get_farm_by_id(d.farm_id, u) = {}
                    THEN /\ last' = Resp("delete_device", u, 403, 0, {}, {})
                         /\ UNCHANGED <<devices, readings>>
                    ELSE /\ devices' = res.devs
                         /\ readings' = res.rds
                         /\ last' = Resp("delete_device", u, 204, 0, {}, {})
        /\ Counted
        /\ UNCHANGED <<nextDeviceId, nextReadingId, clock, raceVars>>

\* GET /farm/{farm_id}/devices
get_farm_devices(u, farm_id) ==
    LET got == iot_crud_get_devices_by_farm(devices, farm_id, 0, 100)
    IN  /\ IF get_farm_by_id(farm_id, u) = {}
           THEN last' = Resp("get_farm_devices", u, 404, 0, {}, {})
           ELSE \E page \in got.pages :
                   \E R \in LatestOf(readings, Range(page)) :
                      last' = Resp("get_farm_devices", u, 200, 0, Range(page), R)
        /\ Counted
        /\ UNCHANGED <<storeVars, clock, raceVars>>

\* mutant: the endpoint depends on get_current_user, and a request without
\* credentials is turned away
record_sensor_reading_RequiresAuth(device_id, metrics) ==
    /\ last' = Resp("record_sensor_reading", "", 401, 0, {}, {})
    /\ Counted
    /\ UNCHANGED <<storeVars, clock, raceVars>>

\* POST /readings: no caller, the endpoint takes no current_user
record_sensor_reading(device_id, metrics) ==
    LET device == iot_crud_get_device_by_id(devices, device_id)
        res == iot_crud_create_sensor_reading(devices, readings, nextReadingId,
                                              device_id, metrics, clock)
    IN  /\ IF device = {}
           THEN /\ last' = Resp("record_sensor_reading", "", 404, 0, {}, {})
                /\ UNCHANGED <<devices, readings, nextReadingId>>
           ELSE /\ readings' = res.rds
                /\ devices' = res.devs
                /\ nextReadingId' = nextReadingId + 1
                /\ last' = Resp("record_sensor_reading", "", 201, 0, {}, res.ret)
        /\ Counted
        /\ UNCHANGED <<nextDeviceId, clock, raceVars>>

\* GET /readings/{device_id}
get_device_readings(u, device_id, hours_back, limit) ==
    LET device == iot_crud_get_device_by_id(devices, device_id)
    IN  /\ IF device = {}
           THEN last' = Resp("get_device_readings", u, 404, 0, {}, {})
           ELSE LET d == CHOOSE x \in device : TRUE
                IN  IF get_farm_by_id(d.farm_id, u) = {}
                    THEN last' = Resp("get_device_readings", u, 403, 0, {}, {})
                    ELSE \E rs \in iot_crud_get_readings_by_device(
                                      readings, device_id, {hours_back}, limit, clock) :
                            last' = Resp("get_device_readings", u, 200, 0,
                                         {}, Range(rs))
        /\ Counted
        /\ UNCHANGED <<storeVars, clock, raceVars>>

\* GET /readings/{device_id}/latest
get_latest_reading(u, device_id) ==
    LET device == iot_crud_get_device_by_id(devices, device_id)
        reading == iot_crud_get_latest_reading(readings, device_id)
    IN  /\ IF device = {}
           THEN last' = Resp("get_latest_reading", u, 404, 0, {}, {})
           ELSE LET d == CHOOSE x \in device : TRUE
                IN  IF get_farm_by_id(d.farm_id, u) = {}
                    THEN last' = Resp("get_latest_reading", u, 403, 0, {}, {})
                    ELSE IF reading = {}
                    THEN last' = Resp("get_latest_reading", u, 404, 0, {}, {})
                    ELSE \E r \in reading :
                            last' = Resp("get_latest_reading", u, 200, 0, {}, {r})
        /\ Counted
        /\ UNCHANGED <<storeVars, clock, raceVars>>

\* GET /readings/{device_id}/stats
get_reading_statistics(u, device_id, hours_back) ==
    LET device == iot_crud_get_device_by_id(devices, device_id)
        stats == iot_crud_get_reading_stats(readings, device_id, hours_back, clock)
    IN  /\ IF device = {}
           THEN last' = Resp("get_reading_statistics", u, 404, 0, {}, {})
           ELSE LET d == CHOOSE x \in device : TRUE
                IN  IF get_farm_by_id(d.farm_id, u) = {}
                    THEN last' = Resp("get_reading_statistics", u, 403, 0, {}, {})
                    ELSE \E rs \in iot_crud_get_readings_by_device(
                                      readings, device_id, {hours_back}, 1000, clock) :
                            last' = [Resp("get_reading_statistics", u, 200, 0, {}, {})
                                       EXCEPT !.stats =
                                          [device_id     |-> device_id,
                                           farm_id       |-> d.farm_id,
                                           first_reading |->
                                              {rs[i].timestamp : i \in {Len(rs)} \ {0}},
                                           last_reading  |->
                                              {rs[i].timestamp : i \in {1} \cap DOMAIN rs},
                                           summary       |-> stats]]
        /\ Counted
        /\ UNCHANGED <<storeVars, clock, raceVars>>

\* GET /farm/{farm_id}/readings
get_farm_readings(u, farm_id, hours_back, limit) ==
    /\ IF get_farm_by_id(farm_id, u) = {}
       THEN last' = Resp("get_farm_readings", u, 404, 0, {}, {})
       ELSE \E rs \in iot_crud_get_readings_by_farm(
                         devices, readings, farm_id, {hours_back}, limit, clock) :
               last' = Resp("get_farm_readings", u, 200, 0, {}, Range(rs))
    /\ Counted
    /\ UNCHANGED <<storeVars, clock, raceVars>>

\* mutant: the handler forgets the role check
check_offline_devices_endpoint_NoRoleCheck(u, timeout_minutes) ==
    LET res == iot_crud_mark_offline_devices(devices, timeout_minutes, clock)
    IN  /\ devices' = res.devs
        /\ last' = [Resp("check_offline_devices_endpoint", u, 200,
                         res.ret, {}, {})
                       EXCEPT !.sweep = [timeout_minutes |-> timeout_minutes,
                                        cutoff_time |-> clock - timeout_minutes]]
        /\ Counted
        /\ UNCHANGED <<readings, nextDeviceId, nextReadingId, clock, raceVars>>

\* POST /maintenance/check-offline
check_offline_devices_endpoint(u, timeout_minutes) ==
    LET res == iot_crud_mark_offline_devices(devices, timeout_minutes, clock)
    IN  /\ IF role(u) # "admin"
           THEN /\ last' = Resp("check_offline_devices_endpoint", u, 403, 0, {}, {})
                /\ UNCHANGED devices
           ELSE /\ devices' = res.devs
                /\ last' = [Resp("check_offline_devices_endpoint", u, 200,
                                 res.ret, {}, {})
                               EXCEPT !.sweep = [timeout_minutes |-> timeout_minutes,
                                                cutoff_time |-> clock - timeout_minutes]]
        /\ Counted
        /\ UNCHANGED <<readings, nextDeviceId, nextReadingId, clock, raceVars>>

\* time passes
Tick ==
    /\ clock < MaxTicks * TickMinutes
    /\ clock' = clock + TickMinutes
    /\ UNCHANGED <<storeVars, last, nreq, raceVars>>

-----------------------------------------------------------------------------
(* The API as a whole: requests handled one after the other *)

\* query parameters of the list endpoints
ListSkips == {0, 1}

ListLimits == {1, 100}

HoursBack == {1, 2}

Init ==
    /\ devices = {}
    /\ readings = {}
    /\ nextDeviceId = 1
    /\ nextReadingId = 1
    /\ clock = 0
    /\ last = NoRequest
    /\ nreq = 0
    /\ pcIngest = "idle"
    /\ pcSweep = "idle"
    /\ race = <<>>

\* the requests that change the store, and the per-device read
Next ==
    \/ Tick
    \/ \E u \in Users, f \in FarmIds, h \in HwIds, t \in TopicInputs :
          register_device(u, f, h, t)
    \/ \E u \in Users, id \in DeviceKeys : get_device(u, id)
    \/ \E u \in Users, id \in DeviceKeys, b \in UpdateBodies :
          update_device(u, id, b)
    \/ \E u \in Users, id \in DeviceKeys : delete_device(u, id)
    \/ \E id \in DeviceKeys, m \in IngestBodies : record_sensor_reading(id, m)
    \/ \E u \in Users, t \in Timeouts : check_offline_devices_endpoint(u, t)

Spec ==
    Init /\ [][Next]_vars

\* every request of the API
NextApi ==
    \/ Next
    \/ \E u \in Users, s \in ListSkips, l \in ListLimits, o \in BOOLEAN :
          list_devices(u, s, l, o)
    \/ \E u \in Users, f \in FarmIds : get_farm_devices(u, f)
    \/ \E u \in Users, id \in DeviceKeys, h \in HoursBack, l \in ListLimits :
          get_device_readings(u, id, h, l)
    \/ \E u \in Users, id \in DeviceKeys : get_latest_reading(u, id)
    \/ \E u \in Users, id \in DeviceKeys, h \in HoursBack :
          get_reading_statistics(u, id, h)
    \/ \E u \in Users, f \in FarmIds, h \in HoursBack, l \in ListLimits :
          get_farm_readings(u, f, h, l)

SpecApi ==
    Init /\ [][NextApi]_vars

-----------------------------------------------------------------------------
(* One ingestion racing one sweep.                                          *)
(*                                                                          *)
(* The two requests run in their own sessions and their SQL statements      *)
(* interleave; a statement is atomic.  (Under READ COMMITTED an UPDATE that  *)
(* meets a row another transaction has written waits for its commit and     *)
(* then re-evaluates its WHERE clause on the committed row, so the outcomes *)
(* are those of the statement orders explored here.)  `race` holds the      *)
(* requests' parameters, `log` the order in which the two writers wrote the *)
(* ingested device's row, and `status_at` the utcnow() of the ingestion's   *)
(* status update.                                                           *)
(***************************************************************************)

\* the tables the race may start from: two registered devices, each online
\* or already marked offline, last heard of at 0 or at TickMinutes
RaceDevice(id, farm_id, device_id, is_online, last_seen) ==
    [NewDevice(id, farm_id, device_id, "", 0)
        EXCEPT !.is_online = is_online, !.last_seen = last_seen]

RaceTables ==
    {{RaceDevice(1, 1, "A", o1, s1), RaceDevice(2, 2, "B", o2, s2)} :
        o1 \in BOOLEAN, s1 \in {0, TickMinutes},
        o2 \in BOOLEAN, s2 \in {0, TickMinutes}}

RaceInit ==
    /\ devices \in RaceTables
    /\ readings = {}
    /\ nextDeviceId = 3
    /\ nextReadingId = 1
    /\ clock = 2 * TickMinutes
    /\ last = NoRequest
    /\ nreq = 0
    /\ pcIngest = "lookup"
    /\ pcSweep = "role"
    /\ \E id \in DeviceKeys, u \in Users, t \in Timeouts, m \in IngestBodies :
          race = [device_id |-> id, metrics |-> m, caller |-> u,
                  timeout_minutes |-> t,
                  log |-> <<>>, status_at |-> 0, marked_offline |-> 0]

\* record_sensor_reading: device = get_device_by_id(...); 404 if none
IngestLookup ==
    /\ pcIngest = "lookup"
    /\ IF iot_crud_get_device_by_id(devices, race.device_id) = {}
       THEN /\ pcIngest' = "done"
            /\ last' = Resp("record_sensor_reading", "", 404, 0, {}, {})
       ELSE /\ pcIngest' = "insert"
            /\ UNCHANGED last
    /\ UNCHANGED <<storeVars, clock, nreq, pcSweep, race>>

\* create_sensor_reading: db.add(db_reading); flush
IngestInsert ==
    /\ pcIngest = "insert"
    /\ readings' = readings \cup {NewReading(nextReadingId, race.device_id,
                                              race.metrics, clock)}
    /\ nextReadingId' = nextReadingId + 1
    /\ pcIngest' = "status"
    /\ UNCHANGED <<devices, nextDeviceId, clock, last, nreq, pcSweep, race>>

\* create_sensor_reading: update_device_status(db, device_id, is_online=True)
IngestStatus ==
    /\ pcIngest = "status"
    /\ devices' = iot_crud_update_device_status(devices, race.device_id, TRUE, clock)
    /\ race' = [race EXCEPT !.log = Append(@, "ingest"), !.status_at = clock]
    /\ pcIngest' = "commit"
    /\ UNCHANGED <<readings, nextDeviceId, nextReadingId, clock, last, nreq, pcSweep>>

\* record_sensor_reading: db.commit(); return reading
IngestCommit ==
    /\ pcIngest = "commit"
    /\ pcIngest' = "done"
    /\ last' = Resp("record_sensor_reading", "", 201, 0, {},
                    {r \in readings : r.device_id = race.device_id})
    /\ UNCHANGED <<storeVars, clock, nreq, pcSweep, race>>

\* check_offline_devices_endpoint: the role check
SweepRole ==
    /\ pcSweep = "role"
    /\ IF role(race.caller) # "admin"
       THEN /\ pcSweep' = "done"
            /\ last' = Resp("check_offline_devices_endpoint", race.caller,
                            403, 0, {}, {})
       ELSE /\ pcSweep' = "update"
            /\ UNCHANGED last
    /\ UNCHANGED <<storeVars, clock, nreq, pcIngest, race>>

\* mark_offline_devices: the bulk UPDATE
SweepUpdate ==
    /\ pcSweep = "update"
    /\ LET res == iot_crud_mark_offline_devices(devices, race.timeout_minutes, clock)
           wrote == \E d \in StaleDevices(devices, race.timeout_minutes, clock) :
                        d.id = race.device_id
       IN  /\ devices' = res.devs
           /\ race' = [race EXCEPT
                         !.log = IF wrote THEN Append(@, "sweep") ELSE @,
                         !.marked_offline = res.ret]
    /\ pcSweep' = "commit"
    /\ UNCHANGED <<readings, nextDeviceId, nextReadingId, clock, last, nreq, pcIngest>>

\* check_offline_devices_endpoint: db.commit(); return
SweepCommit ==
    /\ pcSweep = "commit"
    /\ pcSweep' = "done"
    /\ last' = [Resp("check_offline_devices_endpoint", race.caller, 200,
                     race.marked_offline, {}, {})
                  EXCEPT !.sweep = [timeout_minutes |-> race.timeout_minutes,
                                    cutoff_time |-> clock - race.timeout_minutes]]
    /\ UNCHANGED <<storeVars, clock, nreq, pcIngest, race>>

\* time passes between the statements
RaceTick ==
    /\ clock < (2 + MaxTicks) * TickMinutes
    /\ clock' = clock + TickMinutes
    /\ UNCHANGED <<storeVars, last, nreq, raceVars>>

IngestNext ==
    IngestLookup \/ IngestInsert \/ IngestStatus \/ IngestCommit

SweepNext ==
    SweepRole \/ SweepUpdate \/ SweepCommit

RaceNext ==
    \/ IngestLookup
    \/ IngestInsert
    \/ IngestStatus
    \/ IngestCommit
    \/ SweepRole
    \/ SweepUpdate
    \/ SweepCommit
    \/ RaceTick

SpecRace ==
    RaceInit /\ [][RaceNext]_vars

-----------------------------------------------------------------------------
(* Two ingestions racing each other.                                        *)
(*                                                                          *)
(* Each request runs create_sensor_reading in its own session.  The reading *)
(* is built with timestamp = datetime.now(UTC) and inserted; then            *)
(* update_device_status evaluates datetime.utcnow() while it builds its     *)
(* UPDATE, and the statement reaches the database at the `await` that        *)
(* follows: the other request may run in between.  `race` holds, for each   *)
(* request, the device it names, its position and the utcnow() it read.     *)
(***************************************************************************)

Ingesters == {1, 2}

IngestsInit ==
    /\ devices \in RaceTables
    /\ readings = {}
    /\ nextDeviceId = 3
    /\ nextReadingId = 1
    /\ clock = 2 * TickMinutes
    /\ last = NoRequest
    /\ nreq = 0
    /\ pcIngest = "idle"
    /\ pcSweep = "idle"
    /\ \E id1 \in {1, 3}, id2 \in {1, 2}, m \in IngestBodies :
          race = [device_id |-> [p \in Ingesters |-> IF p = 1 THEN id1 ELSE id2],
                  metrics   |-> m,
                  pc        |-> [p \in Ingesters |-> "lookup"],
                  utcnow    |-> [p \in Ingesters |-> 0]]

\* record_sensor_reading: device = get_device_by_id(...); 404 if none
EachLookup(p) ==
    /\ race.pc[p] = "lookup"
    /\ IF iot_crud_get_device_by_id(devices, race.device_id[p]) = {}
       THEN /\ race' = [race EXCEPT !.pc[p] = "done"]
            /\ last' = Resp("record_sensor_reading", "", 404, 0, {}, {})
       ELSE /\ race' = [race EXCEPT !.pc[p] = "insert"]
            /\ UNCHANGED last
    /\ UNCHANGED <<storeVars, clock, nreq, pcIngest, pcSweep>>

\* create_sensor_reading: SensorReading(timestamp=datetime.now(UTC), ...);
\* db.add; flush
EachInsert(p) ==
    /\ race.pc[p] = "insert"
    /\ readings' = readings \cup {NewReading(nextReadingId, race.device_id[p],
                                              race.metrics, clock)}
    /\ nextReadingId' = nextReadingId + 1
    /\ race' = [race EXCEPT !.pc[p] = "utcnow"]
    /\ UNCHANGED <<devices, nextDeviceId, clock, last, nreq, pcIngest, pcSweep>>

\* update_device_status: .values(is_online=is_online, last_seen=datetime.utcnow())
\* is evaluated, the statement is not sent yet
EachUtcnow(p) ==
    /\ race.pc[p] = "utcnow"
    /\ race' = [race EXCEPT !.pc[p] = "status", !.utcnow[p] = clock]
    /\ UNCHANGED <<storeVars, clock, last, nreq, pcIngest, pcSweep>>

\* update_device_status: await db.execute(...), the UPDATE with the value
\* read before
EachStatus(p) ==
    /\ race.pc[p] = "status"
    /\ devices' = iot_crud_update_device_status(devices, race.device_id[p], TRUE,
                                                race.utcnow[p])
    /\ race' = [race EXCEPT !.pc[p] = "commit"]
    /\ UNCHANGED <<readings, nextDeviceId, nextReadingId, clock, last, nreq,
                   pcIngest, pcSweep>>

\* record_sensor_reading: db.commit(); return reading
EachCommit(p) ==
    /\ race.pc[p] = "commit"
    /\ race' = [race EXCEPT !.pc[p] = "done"]
    /\ last' = Resp("record_sensor_reading", "", 201, 0, {}, {})
    /\ UNCHANGED <<storeVars, clock, nreq, pcIngest, pcSweep>>

\* time passes between the statements
IngestsTick ==
    /\ clock < (2 + MaxTicks) * TickMinutes
    /\ clock' = clock + TickMinutes
    /\ UNCHANGED <<storeVars, last, nreq, raceVars>>

IngestsNext ==
    \/ \E p \in Ingesters : EachLookup(p)
    \/ \E p \in Ingesters : EachInsert(p)
    \/ \E p \in Ingesters : EachUtcnow(p)
    \/ \E p \in Ingesters : EachStatus(p)
    \/ \E p \in Ingesters : EachCommit(p)
    \/ IngestsTick

SpecIngests ==
    IngestsInit /\ [][IngestsNext]_vars

-----------------------------------------------------------------------------
(* The reading queries over a populated store.                              *)
(*                                                                          *)
(* The store holds two registered devices and three readings ingested at    *)
(* 0, 2 or 3 and 3 ticks, with every mix of metric values; the requests are *)
(* the statistics and the list of a device's readings, at 4 ticks and      *)
(* later.                                                                   *)
(***************************************************************************)

\* the time a device was last heard of: its last ingestion, else its
\* registration at 0
LastHeard(rds, device_id) ==
    LET times == {r.timestamp : r \in {x \in rds : x.device_id = device_id}}
                    \cup {0}
    IN  CHOOSE t \in times : \A t2 \in times : t2 <= t

\* the reading tables the queries may meet: readings 1 and 2 of device 1,
\* reading 3 of device 1 or 2
ReadingTables ==
    {{NewReading(1, 1, [temperature |-> t1, humidity |-> {}], 0),
      NewReading(2, 1, [temperature |-> t2, humidity |-> {60}], at2),
      NewReading(3, d3, m3, 3 * TickMinutes)} :
        t1 \in Temperatures, t2 \in Temperatures,
        at2 \in {2 * TickMinutes, 3 * TickMinutes},
        d3 \in {1, 2}, m3 \in ReadingBodies}

ReadingsInit ==
    /\ readings \in ReadingTables
    /\ devices = {RaceDevice(1, 1, "A", TRUE, LastHeard(readings, 1)),
                  RaceDevice(2, 2, "B", TRUE, LastHeard(readings, 2))}
    /\ nextDeviceId = 3
    /\ nextReadingId = 4
    /\ clock = 4 * TickMinutes
    /\ last = NoRequest
    /\ nreq = 0
    /\ pcIngest = "idle"
    /\ pcSweep = "idle"
    /\ race = <<>>

\* time passes between the requests
ReadingsTick ==
    /\ clock < (4 + MaxTicks) * TickMinutes
    /\ clock' = clock + TickMinutes
    /\ UNCHANGED <<storeVars, last, nreq, raceVars>>

ReadingsNext ==
    \/ ReadingsTick
    \/ \E u \in Users, id \in DeviceKeys, h \in HoursBack :
          get_reading_statistics(u, id, h)
    \/ \E u \in Users, id \in DeviceKeys, h \in HoursBack, l \in ListLimits :
          get_device_readings(u, id, h, l)

SpecReadings ==
    ReadingsInit /\ [][ReadingsNext]_vars

-----------------------------------------------------------------------------
(* Properties *)

\* the caller owns the farm (read off the farms table)
Owns(u, farm_id) ==
    \E f \in Farms : f.id = farm_id /\ f.owner_id = u

DeviceWithId(devs, id) ==
    {d \in devs : d.id = id}

\* C1: a successful ingestion for a registered device, online or offline
\* before, leaves the device online with last_seen = the time of the
\* ingestion and adds exactly one reading, of that device.
C1_IngestionRefreshesLiveness ==
    [][\A id \in DeviceKeys :
          (/\ last'.op = "record_sensor_reading"
           /\ last'.status = 201
           /\ \E m \in IngestBodies : record_sensor_reading(id, m)) =>
             /\ DeviceWithId(devices, id) # {}
             /\ DeviceWithId(devices', id) # {}
             /\ \A d \in DeviceWithId(devices', id) :
                   d.is_online = TRUE /\ d.last_seen = clock
             /\ \E r \in readings' :
                   /\ r \notin readings
                   /\ readings' = readings \cup {r}
                   /\ r.device_id = id
                   /\ r.timestamp = clock
      ]_vars

\* C1 witness: an ingestion answered 201 for a device registered earlier
\* than now, which is online and was last seen now
C1_Witness ==
    /\ last.op = "record_sensor_reading"
    /\ last.status = 201
    /\ \E d \in devices, r \in last.rds :
          /\ r \in readings
          /\ r.device_id = d.id
          /\ r.timestamp = clock
          /\ d.created_at < clock
          /\ d.is_online = TRUE
          /\ d.last_seen = clock

\* C2: a sweep that runs demotes exactly the online devices with
\* last_seen < now - timeout_minutes, returns their number, and changes
\* nothing else: no other device, and no last_seen.
C2_SweepMarksExactlyStale ==
    [][\A u \in Users, t \in Timeouts :
          (check_offline_devices_endpoint(u, t) /\ last'.status = 200) =>
             LET stale == {d \in devices :
                              d.is_online = TRUE /\ d.last_seen < clock - t}
             IN  /\ last'.cnt = Cardinality(stale)
                 /\ devices' = (devices \ stale)
                                 \cup {[d EXCEPT !.is_online = FALSE] : d \in stale}
                 /\ \A d \in devices : \E n \in devices' :
                       n.id = d.id /\ n.last_seen = d.last_seen
      ]_vars

\* C2 witness: a sweep returned 1, having demoted a stale device and left
\* alone an online device whose last_seen is not before the cutoff
C2_Witness ==
    /\ last.op = "check_offline_devices_endpoint"
    /\ last.status = 200
    /\ last.cnt = 1
    /\ \E d1, d2 \in devices :
          /\ d1.is_online = FALSE
          /\ d1.last_seen < last.sweep.cutoff_time
          /\ d2.is_online = TRUE
          /\ d2.last_seen >= last.sweep.cutoff_time

\* the request before this one was a sweep that ran with timeout t
AfterSweep(t) ==
    /\ last.op = "check_offline_devices_endpoint"
    /\ last.status = 200
    /\ last.sweep.timeout_minutes = t

\* C3 as stated: a sweep that directly follows a sweep with the same
\* timeout returns 0 and changes no device.
C3_SecondSweepMarksNone ==
    [][\A u \in Users, t \in Timeouts :
          (AfterSweep(t) /\ check_offline_devices_endpoint(u, t)
              /\ last'.status = 200) =>
             (last'.cnt = 0 /\ devices' = devices)
      ]_vars

\* C3 amended: a sweep that directly follows a sweep with the same timeout
\* demotes exactly the online devices that became stale in between (the
\* first cutoff <= last_seen < the second cutoff); it returns 0 and changes
\* no device when there is none, as when the clock has not advanced.
C3_SecondSweepMarksNewlyStale ==
    [][\A u \in Users, t \in Timeouts :
          (AfterSweep(t) /\ check_offline_devices_endpoint(u, t)
              /\ last'.status = 200) =>
             LET newly == {d \in devices :
                              /\ d.is_online = TRUE
                              /\ last.sweep.cutoff_time <= d.last_seen
                              /\ d.last_seen < clock - t}
             IN  /\ last'.cnt = Cardinality(newly)
                 /\ newly = {} => devices' = devices
                 /\ clock - t <= last.sweep.cutoff_time =>
                       (last'.cnt = 0 /\ devices' = devices)
      ]_vars

\* C3 witness: a sweep returned 0 although a device is offline and stale:
\* the device was demoted before, and is not counted again
C3_Witness ==
    /\ last.op = "check_offline_devices_endpoint"
    /\ last.status = 200
    /\ last.cnt = 0
    /\ nreq >= 3
    /\ \E d \in devices :
          d.is_online = FALSE /\ d.last_seen < last.sweep.cutoff_time

UniqueDeviceIds ==
    \A d1, d2 \in devices : d1.device_id = d2.device_id => d1 = d2

\* C4 as stated: registering a device_id that a device holds is answered
\* 400 whichever farm the request names, and creates nothing; device_id is
\* unique among the devices.
C4_DuplicateIsConflict ==
    /\ []UniqueDeviceIds
    /\ [][\A u \in Users, f \in FarmIds, h \in HwIds, t \in TopicInputs :
             (register_device(u, f, h, t) /\ \E d \in devices : d.device_id = h) =>
                (last'.status = 400 /\ devices' = devices)
         ]_vars

\* C4 amended: registering a device_id that a device holds always fails and
\* creates nothing: with 400 when the caller owns the farm the request names
\* (whichever farm holds the device), with 404 when the caller does not;
\* device_id is unique among the devices.
C4_DuplicateAlwaysFails ==
    /\ []UniqueDeviceIds
    /\ [][\A u \in Users, f \in FarmIds, h \in HwIds, t \in TopicInputs :
             (register_device(u, f, h, t) /\ \E d \in devices : d.device_id = h) =>
                /\ devices' = devices
                /\ readings' = readings
                /\ last'.status = IF Owns(u, f) THEN 400 ELSE 404
         ]_vars

\* C4 witness: a registration was answered 400 while every device belongs
\* to a farm of another owner: the duplicate is held on another farm
C4_Witness ==
    /\ last.op = "register_device"
    /\ last.status = 400
    /\ devices # {}
    /\ \A d \in devices : ~Owns(last.caller, d.farm_id)

ReadOps ==
    {"list_devices", "get_device", "get_farm_devices", "get_device_readings",
     "get_latest_reading", "get_farm_readings"}

\* C5: the body of a read holds no device of a farm the caller does not own
\* and no reading of such a device.
C5_ReadsScopedToOwner ==
    (last.op \in ReadOps /\ last.status = 200) =>
        /\ \A d \in last.devs : Owns(last.caller, d.farm_id)
        /\ \A r \in last.rds : \A d \in devices :
              d.id = r.device_id => Owns(last.caller, d.farm_id)

\* C6: get_device, update_device and delete_device answer 404 when no device
\* has the id and otherwise 403 when the caller does not own the device's
\* farm, and then change neither table; they change a table only for a
\* device that exists and whose farm the caller owns.
C6_PerDeviceChecks ==
    [][\A u \in Users, id \in DeviceKeys :
          (/\ last'.caller = u
           /\ \/ last'.op = "get_device" /\ get_device(u, id)
              \/ last'.op = "delete_device" /\ delete_device(u, id)
              \/ last'.op = "update_device"
                    /\ \E b \in UpdateBodies : update_device(u, id, b)) =>
             LET dev == DeviceWithId(devices, id)
                 owned == \E d \in dev : Owns(u, d.farm_id)
             IN  /\ dev = {} =>
                       (last'.status = 404 /\ devices' = devices /\ readings' = readings)
                 /\ (dev # {} /\ ~owned) =>
                       (last'.status = 403 /\ devices' = devices /\ readings' = readings)
                 /\ (devices' # devices \/ readings' # readings) =>
                       (dev # {} /\ owned /\ last'.status \in {200, 204})
      ]_vars

\* C6 witness: a delete was answered 403 and the caller's target is still
\* there: the caller owns no farm of any device
C6_Witness ==
    /\ last.op = "delete_device"
    /\ last.status = 403
    /\ devices # {}
    /\ readings # {}
    /\ \A d \in devices : ~Owns(last.caller, d.farm_id)

\* C7: a successful delete of device d leaves no reading of d, so that
\* latest(d) is null, and leaves the readings of the other devices as they
\* were.
C7_DeleteCascades ==
    [][\A u \in Users, id \in DeviceKeys :
          (delete_device(u, id) /\ last'.status = 204) =>
             /\ DeviceWithId(devices', id) = {}
             /\ \A r \in readings' : r.device_id # id
             /\ iot_crud_get_latest_reading(readings', id) = {}
             /\ {r \in readings' : r.device_id # id}
                   = {r \in readings : r.device_id # id}
             /\ \A d \in devices : d.id # id => d \in devices'
      ]_vars

\* C7 witness: a delete was answered 204 and took a reading with it (the
\* reading sequence is ahead of the table) while another device is left
C7_Witness ==
    /\ last.op = "delete_device"
    /\ last.status = 204
    /\ Cardinality(readings) < nextReadingId - 1
    /\ devices # {}

\* C8: update(id, body) changes, of the device id, only fields the body
\* supplies among is_online and mqtt_topic, changes no other device, and for
\* an unknown id returns null and changes nothing.
C8_UpdateIsPartial ==
    \A id \in DeviceKeys, body \in UpdateBodies :
        LET res == iot_crud_update_device(devices, id, body)
            dev == DeviceWithId(devices, id)
        IN  /\ dev = {} => (res.ret = {} /\ res.devs = devices)
            /\ Cardinality(res.devs) = Cardinality(devices)
            /\ \A d \in devices : d.id # id => d \in res.devs
            /\ \A d \in dev : \E n \in res.devs :
                  /\ n.id = d.id
                  /\ n.farm_id = d.farm_id
                  /\ n.device_id = d.device_id
                  /\ n.last_seen = d.last_seen
                  /\ n.created_at = d.created_at
                  /\ "is_online" \notin body.set => n.is_online = d.is_online
                  /\ "mqtt_topic" \notin body.set => n.mqtt_topic = d.mqtt_topic

\* C8 witness: an update answered 200 returns a device that is offline and
\* has the topic "y", which only a body that supplies mqtt_topic alone sets:
\* one of the two fields was written and the other kept
C8_Witness ==
    /\ last.op = "update_device"
    /\ last.status = 200
    /\ \E d \in last.devs :
          d \in devices /\ d.mqtt_topic = "y" /\ d.is_online = FALSE

\* C9: a registration is answered 404 when the caller does not own farm_id,
\* 400 when the device_id is held, and otherwise 201 with a new device that
\* is online; mqtt_topic is unique among the devices.
C9_RegistrationOutcomes ==
    /\ [](\A d1, d2 \in devices : d1.mqtt_topic = d2.mqtt_topic => d1 = d2)
    /\ [][\A u \in Users, f \in FarmIds, h \in HwIds, t \in TopicInputs :
             register_device(u, f, h, t) =>
                /\ last'.status =
                      IF ~Owns(u, f) THEN 404
                      ELSE IF \E d \in devices : d.device_id = h THEN 400
                      ELSE 201
                /\ last'.status = 201 =>
                      \E d \in devices' :
                         /\ d \notin devices
                         /\ devices' = devices \cup {d}
                         /\ d.device_id = h
                         /\ d.farm_id = f
                         /\ d.is_online = TRUE
                         /\ d.mqtt_topic = IF t = "" THEN DefaultTopic(f) ELSE t
         ]_vars

WindowOf(device_id, h) ==
    {r \in readings : r.device_id = device_id /\ r.timestamp >= clock - h * 60}

\* the reported value x (absent, {}, or one number) is the mean of the
\* non-null values of metric f over rows: absent exactly when there is none
IsMeanOf(x, rows, f) ==
    LET seen == {r \in rows : r[f] # {}}
    IN  /\ (x = {}) <=> (seen = {})
        /\ \A v \in x : v.num * Cardinality(seen) = SumOf(seen, f) * v.den

\* the reported value x is the least (sign = 1) or greatest (sign = -1)
\* non-null value of metric f over rows: absent exactly when there is none
IsExtremeOf(x, rows, f, sign) ==
    LET seen == {r \in rows : r[f] # {}}
    IN  /\ (x = {}) <=> (seen = {})
        /\ \A v \in x :
              /\ v.den = 1
              /\ \E r \in seen : ValueOf(r, f) = v.num
              /\ \A r \in seen : sign * v.num <= sign * ValueOf(r, f)

\* C11: the statistics of a device over a window are the reference
\* aggregation of its readings in the window: readings_count counts them
\* all, each average is the mean of the metric's non-null values, the
\* temperature minimum and maximum are its least and greatest non-null
\* values, and a metric is absent exactly when it has no non-null value in
\* the window.
C11_StatsMatchReference ==
    [][\A u \in Users, id \in DeviceKeys, h \in HoursBack :
          (/\ last'.op = "get_reading_statistics"
           /\ last'.status = 200
           /\ get_reading_statistics(u, id, h)) =>
             LET st == last'.stats.summary
                 win == WindowOf(id, h)
             IN  /\ st.readings_count = Cardinality(win)
                 /\ IsMeanOf(st.avg_temperature, win, "temperature")
                 /\ IsMeanOf(st.avg_humidity, win, "humidity")
                 /\ IsExtremeOf(st.min_temperature, win, "temperature", 1)
                 /\ IsExtremeOf(st.max_temperature, win, "temperature", -1)
      ]_vars

\* the hours_back a caller of get_readings_by_device may pass: None or a
\* number of hours
OptionalHours ==
    {{}} \cup {{h} : h \in HoursBack}

\* C12: the list of a device's readings holds only readings of the device,
\* none older than now - hours_back when hours_back is given, each once and
\* newest first; it holds min(limit, number of matching readings) of them,
\* and no matching reading it leaves out is newer than one it holds.
C12_ListForDevice ==
    \A id \in DeviceKeys, hb \in OptionalHours, limit \in ListLimits :
        LET matching == {r \in readings :
                            /\ r.device_id = id
                            /\ \A h \in hb : r.timestamp >= clock - h * 60}
            n == Cardinality(matching)
            res == iot_crud_get_readings_by_device(readings, id, hb, limit, clock)
        IN  /\ res # {}
            /\ \A s \in res :
                  /\ \A i \in DOMAIN s : s[i] \in matching
                  /\ \A i, j \in DOMAIN s : i < j =>
                        (s[i] # s[j] /\ s[i].timestamp >= s[j].timestamp)
                  /\ Len(s) = IF limit < n THEN limit ELSE n
                  /\ \A r \in matching : \A i \in DOMAIN s :
                        r.timestamp > s[i].timestamp => \E j \in DOMAIN s : s[j] = r

\* C12 witness: a list of a device's readings was answered with two readings
\* or more, one of them less than an hour old, and without a reading of the
\* device that is two hours old
C12_Witness ==
    /\ last.op = "get_device_readings"
    /\ last.status = 200
    /\ Cardinality(last.rds) >= 2
    /\ \E r \in last.rds, old \in readings :
          /\ old.device_id = r.device_id
          /\ old \notin last.rds
          /\ old.timestamp <= clock - 120
          /\ r.timestamp > clock - 60

\* C13: ingestion asks for no credentials and checks no ownership: a request
\* that names an existing device, of whichever farm, is answered 201 and its
\* reading is stored; a request that names no device is answered 404, stores
\* no reading and changes no device.
C13_IngestionIsOpen ==
    [][\A id \in DeviceKeys :
          (/\ last'.op = "record_sensor_reading"
           /\ \E m \in IngestBodies : record_sensor_reading(id, m)) =>
             /\ last'.caller = ""
             /\ IF DeviceWithId(devices, id) # {}
                THEN /\ last'.status = 201
                     /\ \E r \in readings' :
                           /\ r \notin readings
                           /\ r.device_id = id
                           /\ readings' = readings \cup {r}
                           /\ last'.rds = {r}
                ELSE /\ last'.status = 404
                     /\ readings' = readings
                     /\ devices' = devices
      ]_vars

\* C13 witness: an ingestion without a caller was answered 201, and readings
\* are stored for devices of two farms with different owners
C13_Witness ==
    /\ last.op = "record_sensor_reading"
    /\ last.status = 201
    /\ last.caller = ""
    /\ \E r1, r2 \in readings, d1, d2 \in devices :
          /\ r1.device_id = d1.id
          /\ r2.device_id = d2.id
          /\ Owns("u1", d1.farm_id)
          /\ Owns("u2", d2.farm_id)
          /\ ~Owns("u1", d2.farm_id)

\* the devices a step takes from online to offline
Demoted ==
    {d \in devices : /\ d.is_online = TRUE
                     /\ \E n \in devices' : n.id = d.id /\ n.is_online = FALSE}

\* C14: a call of the check-offline endpoint by a caller whose role is not
\* admin is answered 403 and changes no device; a call by an admin is
\* answered 200, runs the sweep, and returns as marked_offline the number of
\* devices the call took from online to offline.
C14_SweepIsAdminOnly ==
    [][\A u \in Users, t \in Timeouts :
          (/\ last'.op = "check_offline_devices_endpoint"
           /\ last'.caller = u
           /\ check_offline_devices_endpoint(u, t)) =>
             IF role(u) # "admin"
             THEN /\ last'.status = 403
                  /\ devices' = devices
                  /\ Demoted = {}
             ELSE /\ last'.status = 200
                  /\ last'.cnt = Cardinality(Demoted)
                  /\ devices' = iot_crud_mark_offline_devices(devices, t, clock).devs
      ]_vars

\* C14 witness: the last request was a check-offline call of a caller who is
\* not an admin, answered 403, and a device last seen longer ago than the
\* shortest timeout is still online
C14_Witness ==
    /\ last.op = "check_offline_devices_endpoint"
    /\ last.status = 403
    /\ role(last.caller) # "admin"
    /\ \E d \in devices : d.is_online = TRUE /\ d.last_seen < clock - 5

\* every device was last seen no earlier than any stored reading of it
LastSeenCoversReadings ==
    \A d \in devices : \A r \in readings :
        r.device_id = d.id => d.last_seen >= r.timestamp

\* a step takes no device's last_seen back
LastSeenNeverDecreases ==
    \A d \in devices : \A n \in devices' :
        n.id = d.id => n.last_seen >= d.last_seen

\* the two racing ingestions have both returned
BothReturned ==
    \A p \in Ingesters : race.pc[p] = "done"

\* C15: whatever the interleaving of the ingestions, once they have returned
\* every device's last_seen is no earlier than the timestamp of any stored
\* reading of the device; no step takes a device's last_seen back; and only
\* an ingestion's status update writes last_seen.
C15_LastSeenIsLatestTelemetry ==
    /\ [](BothReturned => LastSeenCoversReadings)
    /\ [][LastSeenNeverDecreases]_vars
    /\ [][(\E d \in devices : \E n \in devices' :
               n.id = d.id /\ n.last_seen # d.last_seen) =>
            \E p \in Ingesters : EachStatus(p)]_vars

====
